---- MODULE Spec2Model ----
(***************************************************************************)
(* Model of src/labeler.js: the pull-request labeler action.  One run      *)
(* reads its inputs, fetches the pull request, its changed files and the   *)
(* label configuration, computes the labels to add and to remove and       *)
(* issues the add-labels / remove-label calls against the host.            *)
(*                                                                         *)
(* Strings that the program inspects character by character (glob          *)
(* patterns and file paths) are sequences of one-character strings.        *)
(***************************************************************************)
EXTENDS Integers, Sequences, FiniteSets, TLC

(***************************************************************************)
(* Bounds and universes                                                    *)
(***************************************************************************)
\* longest list of changed files a pull request reports
MaxFiles == 2

\* label names that occur in configuration documents and on the pull request
LabelNames == {"frontend", "docs"}

\* "src/**"
SRC_GLOB == <<"s","r","c","/","*","*">>
\* "!src/server/**"
NOT_SERVER_GLOB == <<"!","s","r","c","/","s","e","r","v","e","r","/","*","*">>
\* "**/*.md"
MD_GLOB == <<"*","*","/","*",".","m","d">>

\* "src/server/api.ts"
API_TS == <<"s","r","c","/","s","e","r","v","e","r","/","a","p","i",".","t","s">>
\* "src/ui/App.tsx"
APP_TSX == <<"s","r","c","/","u","i","/","A","p","p",".","t","s","x">>
\* "README.md"
README_MD == <<"R","E","A","D","M","E",".","m","d">>

Paths == {API_TS, APP_TSX, README_MD}

\* values a label can have in the loaded yaml document
StringValue(s) == [type |-> "string", str |-> s, arr |-> <<>>]
ArrayValue(a) == [type |-> "array", str |-> <<>>, arr |-> a]
NumberValue == [type |-> "number", str |-> <<>>, arr |-> <<>>]

Values == { StringValue(MD_GLOB),
            ArrayValue(<<SRC_GLOB, NOT_SERVER_GLOB>>),
            ArrayValue(<<>>),
            NumberValue }

\* a yaml mapping: its keys in document order, each with its value
Documents ==
    { d \in UNION { [1..n -> [label : LabelNames, value : Values]] :
                        n \in 0..Cardinality(LabelNames) } :
        \A i, j \in DOMAIN d : i # j => d[i].label # d[j].label }

FileLists == UNION { [1..n -> Paths] : n \in 0..MaxFiles }

\* what core.getInput("sync-labels") can return: unset, "true", "false"
SyncInputs == {"", "true", "false"}

Range(s) == { s[i] : i \in DOMAIN s }

(***************************************************************************)
(* minimatch: new Minimatch(glob) and Minimatch.match(file)                *)
(***************************************************************************)
RECURSIVE SplitFrom(_, _, _, _)
\* s.split(/\/+/) : the pieces of s between runs of slashes
SplitFrom(s, i, cur, acc) ==
    IF i > Len(s) THEN Append(acc, cur)
    ELSE IF s[i] = "/"
         THEN IF i > 1 /\ s[i-1] = "/"
              THEN SplitFrom(s, i + 1, cur, acc)
              ELSE SplitFrom(s, i + 1, <<>>, Append(acc, cur))
         ELSE SplitFrom(s, i + 1, Append(cur, s[i]), acc)

slashSplit(s) == SplitFrom(s, 1, <<>>, <<>>)

RECURSIVE NegateOffset(_, _)
\* number of leading "!" of a pattern
NegateOffset(pattern, i) ==
    IF i <= Len(pattern) /\ pattern[i] = "!"
    THEN NegateOffset(pattern, i + 1)
    ELSE i - 1

\* parseNegate: every leading "!" flips negate and is dropped from the pattern
parseNegate(pattern) ==
    LET off == NegateOffset(pattern, 1)
    IN  [negate |-> off % 2 = 1,
         pattern |-> SubSeq(pattern, off + 1, Len(pattern))]

\* parse of one path portion: "**" is the globstar, a portion with * or ? is
\* a regular expression, anything else is compared as a literal
parsePart(part) ==
    [globstar |-> part = <<"*","*">>,
     magic |-> \E i \in DOMAIN part : part[i] \in {"*", "?"},
     src |-> part]

\* new Minimatch(glob)
Minimatch(glob) ==
    LET comment == Len(glob) > 0 /\ glob[1] = "#"
        empty == glob = <<>>
        neg == parseNegate(glob)
        parts == slashSplit(neg.pattern)
    IN  [pattern |-> IF comment \/ empty THEN glob ELSE neg.pattern,
         comment |-> comment,
         empty |-> empty,
         negate |-> IF comment \/ empty THEN FALSE ELSE neg.negate,
         set |-> IF comment \/ empty THEN <<>>
                 ELSE [i \in DOMAIN parts |-> parsePart(parts[i])]]

RECURSIVE Wild(_, _, _, _)
\* the regular expression of a portion: * is [^/]*?, ? is [^/]
Wild(p, f, i, j) ==
    IF i > Len(p) THEN j > Len(f)
    ELSE IF p[i] = "*"
         THEN Wild(p, f, i + 1, j) \/ (j <= Len(f) /\ Wild(p, f, i, j + 1))
         ELSE IF p[i] = "?"
              THEN j <= Len(f) /\ Wild(p, f, i + 1, j + 1)
              ELSE j <= Len(f) /\ f[j] = p[i] /\ Wild(p, f, i + 1, j + 1)

\* a path portion that a wildcard never swallows: ".", ".." and dot files
DotPortion(f) == Len(f) > 0 /\ f[1] = "."

\* hit of one file portion against one parsed pattern portion
PartHit(p, f) ==
    IF ~p.magic THEN f = p.src
    ELSE /\ Len(f) > 0
         /\ (p.src[1] \in {"*", "?"} => f[1] # ".")
         /\ Wild(p.src, f, 1, 1)

RECURSIVE matchOne(_, _, _, _)
RECURSIVE GlobstarScan(_, _, _, _)
\* matchOne(file, pattern) from portion fi of the file and pi of the pattern
matchOne(file, pattern, fi, pi) ==
    IF fi <= Len(file) /\ pi <= Len(pattern)
    THEN IF pattern[pi].globstar
         THEN IF pi = Len(pattern)
              THEN \A k \in fi..Len(file) : ~DotPortion(file[k])
              ELSE GlobstarScan(file, pattern, fi, pi + 1)
         ELSE PartHit(pattern[pi], file[fi])
              /\ matchOne(file, pattern, fi + 1, pi + 1)
    ELSE IF fi > Len(file) /\ pi > Len(pattern) THEN TRUE
    ELSE IF fi > Len(file) THEN FALSE
    ELSE fi = Len(file) /\ file[fi] = <<>>

\* the while loop of the globstar: let ** swallow portions fr, fr+1, ...
GlobstarScan(file, pattern, fr, pr) ==
    IF fr > Len(file) THEN FALSE
    ELSE IF matchOne(file, pattern, fr, pr) THEN TRUE
    ELSE IF DotPortion(file[fr]) THEN FALSE
    ELSE GlobstarScan(file, pattern, fr + 1, pr)

\* matcher.match(f)
Match(matcher, f) ==
    IF matcher.comment THEN FALSE
    ELSE IF matcher.empty THEN f = <<>>
    ELSE IF matchOne(slashSplit(f), matcher.set, 1, 1)
         THEN ~matcher.negate
         ELSE matcher.negate

(***************************************************************************)
(* labeler.js: the pure functions                                          *)
(***************************************************************************)
RECURSIVE isMatchEvery(_, _, _)
\* isMatch requiring every matcher to match the file
isMatchEvery(changedFile, matchers, i) ==
    IF i > Len(matchers) THEN TRUE
    ELSE IF ~Match(matchers[i], changedFile) THEN FALSE
    ELSE isMatchEvery(changedFile, matchers, i + 1)

RECURSIVE isMatchFrom(_, _, _)
\* the loop of isMatch from matcher i on
isMatchFrom(changedFile, matchers, i) ==
    IF i > Len(matchers) THEN FALSE
    ELSE IF Match(matchers[i], changedFile) THEN TRUE
    ELSE isMatchFrom(changedFile, matchers, i + 1)

isMatch(changedFile, matchers) == isMatchFrom(changedFile, matchers, 1)

RECURSIVE allFilesMatchFrom(_, _, _)
\* the loop of allFilesMatch from changed file i on
allFilesMatchFrom(changedFiles, matchers, i) ==
    IF i > Len(changedFiles) THEN TRUE
    ELSE IF ~isMatch(changedFiles[i], matchers) THEN FALSE
    ELSE allFilesMatchFrom(changedFiles, matchers, i + 1)

allFilesMatch(changedFiles, globs) ==
    LET matchers == [i \in DOMAIN globs |-> Minimatch(globs[i])]
    IN  allFilesMatchFrom(changedFiles, matchers, 1)

RECURSIVE getLabelGlobMapSkipping(_, _, _)
\* getLabelGlobMapFromObject skipping a label of unexpected type
getLabelGlobMapSkipping(configObject, i, labelGlobs) ==
    IF i > Len(configObject)
    THEN [threw |-> FALSE, label |-> "", labelGlobs |-> labelGlobs]
    ELSE LET label == configObject[i].label
             value == configObject[i].value
         IN  IF value.type = "string"
             THEN getLabelGlobMapSkipping(configObject, i + 1,
                      Append(labelGlobs, [label |-> label, globs |-> <<value.str>>]))
             ELSE IF value.type = "array"
                  THEN getLabelGlobMapSkipping(configObject, i + 1,
                           Append(labelGlobs, [label |-> label, globs |-> value.arr]))
                  ELSE getLabelGlobMapSkipping(configObject, i + 1, labelGlobs)

RECURSIVE getLabelGlobMapUnwrapped(_, _, _)
\* getLabelGlobMapFromObject not wrapping a string value into a list
getLabelGlobMapUnwrapped(configObject, i, labelGlobs) ==
    IF i > Len(configObject)
    THEN [threw |-> FALSE, label |-> "", labelGlobs |-> labelGlobs]
    ELSE LET label == configObject[i].label
             value == configObject[i].value
         IN  IF value.type \in {"string", "array"}
             THEN getLabelGlobMapUnwrapped(configObject, i + 1,
                      Append(labelGlobs, [label |-> label, globs |-> value.arr]))
             ELSE [threw |-> TRUE, label |-> label, labelGlobs |-> <<>>]

\* the loop of getLabelGlobMapFromObject from key i of the document on;
\* threw: the Error of line 127 was thrown, for the label it names
RECURSIVE getLabelGlobMapFrom(_, _, _)
getLabelGlobMapFrom(configObject, i, labelGlobs) ==
    IF i > Len(configObject)
    THEN [threw |-> FALSE, label |-> "", labelGlobs |-> labelGlobs]
    ELSE LET label == configObject[i].label
             value == configObject[i].value
         IN  IF value.type = "string"
             THEN getLabelGlobMapFrom(configObject, i + 1,
                      Append(labelGlobs, [label |-> label, globs |-> <<value.str>>]))
             ELSE IF value.type = "array"
                  THEN getLabelGlobMapFrom(configObject, i + 1,
                           Append(labelGlobs, [label |-> label, globs |-> value.arr]))
                  ELSE [threw |-> TRUE, label |-> label, labelGlobs |-> <<>>]

getLabelGlobMapFromObject(configObject) ==
    getLabelGlobMapFrom(configObject, 1, <<>>)

\* the loop body pushing only labels the pull request does not carry yet
processLabelDiffOnly(label, globs, files, pullRequestLabels) ==
    IF allFilesMatch(files, globs)
    THEN [push |-> label \notin pullRequestLabels, remove |-> FALSE]
    ELSE [push |-> FALSE, remove |-> label \in pullRequestLabels]

\* the loop body with "if" in place of "else if"
processLabelNoElse(label, globs, files, pullRequestLabels) ==
    [push |-> allFilesMatch(files, globs),
     remove |-> label \in pullRequestLabels]

\* the loop body without the removal branch
processLabelNeverRemove(label, globs, files, pullRequestLabels) ==
    [push |-> allFilesMatch(files, globs), remove |-> FALSE]

\* the loop body removing without looking at pullRequest.labels
processLabelRemoveUnfetched(label, globs, files, pullRequestLabels) ==
    [push |-> allFilesMatch(files, globs),
     remove |-> ~allFilesMatch(files, globs)]

\* the body of the loop of run over labelGlobs.entries(): what is pushed
\* for one label, given the labels the fetched pull request carries
processLabel(label, globs, files, pullRequestLabels) ==
    IF allFilesMatch(files, globs)
    THEN [push |-> TRUE, remove |-> FALSE]
    ELSE IF label \in pullRequestLabels
         THEN [push |-> FALSE, remove |-> TRUE]
         ELSE [push |-> FALSE, remove |-> FALSE]

RECURSIVE processFrom(_, _, _, _, _, _)
\* the loop of run over labelGlobs.entries() from entry i on
processFrom(globMap, files, pullRequestLabels, i, toAdd, toRemove) ==
    IF i > Len(globMap)
    THEN [labels |-> toAdd, labelsToRemove |-> toRemove]
    ELSE LET label == globMap[i].label
             r == processLabel(label, globMap[i].globs, files, pullRequestLabels)
         IN  processFrom(globMap, files, pullRequestLabels, i + 1,
                 IF r.push THEN Append(toAdd, label) ELSE toAdd,
                 IF r.remove THEN Append(toRemove, label) ELSE toRemove)

(***************************************************************************)
(* State                                                                   *)
(***************************************************************************)
VARIABLES
    \* the host and the workflow event
    syncInput,        \* core.getInput("sync-labels")
    hasPullRequest,   \* github.context.payload.pull_request is set
    prLabels,         \* the labels attached to the pull request at the host
    prFiles,          \* the changed files the host lists for the pull request
    configDoc,        \* the yaml document at configuration-path
    \* the run
    pc,               \* the await the run is suspended at
    syncLabels,
    pullRequest,      \* pullRequest.labels, as names
    changedFiles,
    labelGlobs,
    labels,
    labelsToRemove,
    addCalls,         \* the labels argument of each issues.addLabels call issued
    removeCalls,      \* the name argument of each issues.removeLabel call issued
    pending,          \* removeLabel calls in flight
    failed,           \* what core.setFailed was called for
    \* history
    startLabels,      \* prLabels when the run started
    converged         \* the previous run synced without a failure, and this
                      \* run has the same document and changed files

host == <<syncInput, hasPullRequest, prFiles, configDoc>>
locals == <<syncLabels, pullRequest, changedFiles, labelGlobs, labels, labelsToRemove>>
calls == <<addCalls, removeCalls, pending>>
history == <<startLabels, converged>>
vars == <<host, prLabels, pc, locals, calls, failed, history>>

NoError == [kind |-> "none", label |-> ""]
ApiError(call) == [kind |-> call, label |-> ""]
\* Error(`found unexpected type for label ${label} ...`)
UnexpectedType(label) == [kind |-> "unexpected type", label |-> label]

Init ==
    /\ syncInput \in SyncInputs
    /\ hasPullRequest \in BOOLEAN
    /\ prLabels \in SUBSET LabelNames
    /\ prFiles \in FileLists
    /\ configDoc \in Documents
    /\ pc = "idle"
    /\ syncLabels = FALSE
    /\ pullRequest = {}
    /\ changedFiles = <<>>
    /\ labelGlobs = <<>>
    /\ labels = <<>>
    /\ labelsToRemove = <<>>
    /\ addCalls = <<>>
    /\ removeCalls = <<>>
    /\ pending = {}
    /\ failed = NoError
    /\ startLabels = prLabels
    /\ converged = FALSE

(***************************************************************************)
(* run()                                                                   *)
(***************************************************************************)
\* lines 8-16: read the inputs; return when the event has no pull request
GetInput ==
    /\ pc = "getInput"
    /\ syncLabels' = (syncInput # "")
    /\ pc' = IF hasPullRequest THEN "pullsGet" ELSE "done"
    /\ UNCHANGED <<host, prLabels, pullRequest, changedFiles, labelGlobs,
                   labels, labelsToRemove, calls, failed, history>>

\* lines 20-24: client.pulls.get resolves or rejects
PullsGet ==
    /\ pc = "pullsGet"
    /\ \/ /\ pullRequest' = prLabels
          /\ pc' = "getChangedFiles"
          /\ UNCHANGED failed
       \/ /\ failed' = ApiError("pulls.get")
          /\ pc' = "done"
          /\ UNCHANGED pullRequest
    /\ UNCHANGED <<host, prLabels, syncLabels, changedFiles, labelGlobs,
                   labels, labelsToRemove, calls, history>>

\* line 27: getChangedFiles resolves or rejects
GetChangedFiles ==
    /\ pc = "getChangedFiles"
    /\ \/ /\ changedFiles' = prFiles
          /\ pc' = "getLabelGlobs"
          /\ UNCHANGED failed
       \/ /\ failed' = ApiError("pulls.listFiles")
          /\ pc' = "done"
          /\ UNCHANGED changedFiles
    /\ UNCHANGED <<host, prLabels, syncLabels, pullRequest, labelGlobs,
                   labels, labelsToRemove, calls, history>>

\* lines 28-31: getLabelGlobs fetches the document and builds the map, or
\* rejects (the fetch failed, or getLabelGlobMapFromObject threw)
GetLabelGlobs ==
    /\ pc = "getLabelGlobs"
    /\ \/ LET r == getLabelGlobMapFromObject(configDoc)
          IN  IF r.threw
              THEN /\ failed' = UnexpectedType(r.label)
                   /\ pc' = "done"
                   /\ UNCHANGED labelGlobs
              ELSE /\ labelGlobs' = r.labelGlobs
                   /\ pc' = "process"
                   /\ UNCHANGED failed
       \/ /\ failed' = ApiError("repos.getContents")
          /\ pc' = "done"
          /\ UNCHANGED labelGlobs
    /\ UNCHANGED <<host, prLabels, syncLabels, pullRequest, changedFiles,
                   labels, labelsToRemove, calls, history>>

\* lines 33-42: the loop over the labels of the map
ProcessLabels ==
    /\ pc = "process"
    /\ LET r == processFrom(labelGlobs, changedFiles, pullRequest, 1, <<>>, <<>>)
       IN  /\ labels' = r.labels
           /\ labelsToRemove' = r.labelsToRemove
    /\ pc' = "addLabels"
    /\ UNCHANGED <<host, prLabels, syncLabels, pullRequest, changedFiles,
                   labelGlobs, calls, failed, history>>

\* addLabels whose rejection is reported without ending the run
AddLabelsSettled ==
    /\ pc = "addLabels"
    /\ pc' = "removeLabels"
    /\ IF Len(labels) > 0
       THEN /\ addCalls' = Append(addCalls, labels)
            /\ \/ /\ prLabels' = prLabels \cup Range(labels)
                  /\ UNCHANGED failed
               \/ /\ failed' = ApiError("issues.addLabels")
                  /\ UNCHANGED prLabels
       ELSE UNCHANGED <<addCalls, prLabels, failed>>
    /\ UNCHANGED <<host, locals, removeCalls, pending, history>>

\* lines 44-46: one issues.addLabels call when there are labels to add;
\* it resolves, attaching the labels, or rejects
AddLabels ==
    /\ pc = "addLabels"
    /\ IF Len(labels) > 0
       THEN /\ addCalls' = Append(addCalls, labels)
            /\ \/ /\ prLabels' = prLabels \cup Range(labels)
                  /\ pc' = "removeLabels"
                  /\ UNCHANGED failed
               \/ /\ failed' = ApiError("issues.addLabels")
                  /\ pc' = "done"
                  /\ UNCHANGED prLabels
       ELSE /\ pc' = "removeLabels"
            /\ UNCHANGED <<addCalls, prLabels, failed>>
    /\ UNCHANGED <<host, locals, removeCalls, pending, history>>

\* lines 48-50 and 193-202: when syncLabels is set and there are labels to
\* remove, one issues.removeLabel call per label, all issued at once
RemoveLabels ==
    /\ pc = "removeLabels"
    /\ IF syncLabels /\ Len(labelsToRemove) > 0
       THEN /\ removeCalls' = removeCalls \o labelsToRemove
            /\ pending' = Range(labelsToRemove)
            /\ pc' = "awaitRemove"
       ELSE /\ pc' = "done"
            /\ UNCHANGED <<removeCalls, pending>>
    /\ UNCHANGED <<host, prLabels, locals, addCalls, failed, history>>

\* one issues.removeLabel call resolves, detaching the label
RemoveLabelResolves ==
    /\ \E name \in pending :
          /\ pending' = pending \ {name}
          /\ prLabels' = prLabels \ {name}
    /\ UNCHANGED <<host, pc, locals, addCalls, removeCalls, failed, history>>

\* one issues.removeLabel call rejects: Promise.all rejects with the first
\* rejection and run reports it (lines 51-54); later rejections are dropped
RemoveLabelRejects ==
    /\ \E name \in pending :
          /\ pending' = pending \ {name}
          /\ IF pc = "awaitRemove"
             THEN /\ failed' = [kind |-> "issues.removeLabel", label |-> name]
                  /\ pc' = "done"
             ELSE UNCHANGED <<failed, pc>>
    /\ UNCHANGED <<host, prLabels, locals, addCalls, removeCalls, history>>

\* line 49: Promise.all resolves once every removeLabel call has resolved
RemoveLabelsDone ==
    /\ pc = "awaitRemove"
    /\ pending = {}
    /\ pc' = "done"
    /\ UNCHANGED <<host, prLabels, locals, calls, failed, history>>

\* the run synced the labels of the pull request without a failure
SyncedClean ==
    /\ pc = "done"
    /\ hasPullRequest
    /\ syncLabels
    /\ failed = NoError

\* the node process ends once run has returned and no call is in flight
Exit ==
    /\ pc = "done"
    /\ pending = {}
    /\ pc' = "idle"
    /\ syncLabels' = FALSE
    /\ pullRequest' = {}
    /\ changedFiles' = <<>>
    /\ labelGlobs' = <<>>
    /\ labels' = <<>>
    /\ labelsToRemove' = <<>>
    /\ addCalls' = <<>>
    /\ removeCalls' = <<>>
    /\ failed' = NoError
    /\ converged' = SyncedClean
    /\ UNCHANGED <<host, prLabels, pending, startLabels>>

\* between two runs: a push changes the files the pull request lists
HostChangesFiles ==
    /\ pc = "idle"
    /\ prFiles' \in FileLists \ {prFiles}
    /\ converged' = FALSE
    /\ UNCHANGED <<syncInput, hasPullRequest, configDoc, prLabels, pc,
                   locals, calls, failed, startLabels>>

\* between two runs: a push changes the document at configuration-path
HostChangesConfig ==
    /\ pc = "idle"
    /\ configDoc' \in Documents \ {configDoc}
    /\ converged' = FALSE
    /\ UNCHANGED <<syncInput, hasPullRequest, prFiles, prLabels, pc,
                   locals, calls, failed, startLabels>>

\* between two runs: the workflow file sets another sync-labels input, or
\* the next event is of another kind
HostChangesWorkflow ==
    /\ pc = "idle"
    /\ syncInput' \in SyncInputs
    /\ hasPullRequest' \in BOOLEAN
    /\ <<syncInput', hasPullRequest'>> # <<syncInput, hasPullRequest>>
    /\ UNCHANGED <<prFiles, configDoc, prLabels, pc, locals, calls, failed,
                   history>>

\* the next workflow event starts a run of the action
NewRun ==
    /\ pc = "idle"
    /\ pc' = "getInput"
    /\ startLabels' = prLabels
    /\ UNCHANGED <<host, prLabels, locals, calls, failed, converged>>

Next ==
    \/ GetInput
    \/ PullsGet
    \/ GetChangedFiles
    \/ GetLabelGlobs
    \/ ProcessLabels
    \/ AddLabels
    \/ RemoveLabels
    \/ RemoveLabelResolves
    \/ RemoveLabelRejects
    \/ RemoveLabelsDone
    \/ Exit
    \/ HostChangesFiles
    \/ HostChangesConfig
    \/ HostChangesWorkflow
    \/ NewRun

Spec == Init /\ [][Next]_vars

(***************************************************************************)
(* Properties                                                              *)
(***************************************************************************)
TypeOK ==
    /\ pc \in {"getInput", "pullsGet", "getChangedFiles", "getLabelGlobs",
               "process", "addLabels", "removeLabels", "awaitRemove", "done",
               "idle"}
    /\ prLabels \subseteq LabelNames
    /\ pending \subseteq LabelNames
    /\ syncLabels \in BOOLEAN

\* every file is matched by at least one of the patterns
Covers(files, globs) ==
    \A k \in DOMAIN files :
        \E j \in DOMAIN globs : Match(Minimatch(globs[j]), files[k])

\* the loop of lines 33-42 has run in this run
Processed ==
    \/ pc \in {"addLabels", "removeLabels", "awaitRemove"}
    \/ /\ pc = "done"
       /\ hasPullRequest
       /\ failed.kind \in {"none", "issues.addLabels", "issues.removeLabel"}

\* getLabelGlobs has returned a map in this run
Parsed == pc = "process" \/ Processed

DocKeys(doc) == { doc[i].label : i \in DOMAIN doc }

\* the labels of a document whose value is neither a string nor a list
BadLabels(doc) ==
    { doc[i].label :
        i \in { j \in DOMAIN doc : doc[j].value.type \notin {"string", "array"} } }

\* C1: allFilesMatch(F, P) is true exactly when every file of F is matched
\* by at least one pattern of P: once the loop of run has applied it to the
\* changed files and the patterns of each label, a label is in labels iff
\* its patterns cover every changed file; with no changed file every label is.
C1_AllFilesMatch ==
    Processed =>
        /\ \A i \in DOMAIN labelGlobs :
              (labelGlobs[i].label \in Range(labels))
                  <=> Covers(changedFiles, labelGlobs[i].globs)
        /\ (changedFiles = <<>> => Range(labels) = DocKeys(labelGlobs))

C1_Witness ==
    /\ Processed
    /\ Len(changedFiles) = 2
    /\ changedFiles[1] # changedFiles[2]
    /\ \E i, j \in DOMAIN labelGlobs :
          /\ labelGlobs[i].label \in Range(labels)
          /\ Len(labelGlobs[i].globs) = 2
          /\ labelGlobs[j].label \notin Range(labels)
          /\ labelGlobs[j].globs # <<>>

FrontendPolicy ==
    <<[label |-> "frontend", value |-> ArrayValue(<<SRC_GLOB, NOT_SERVER_GLOB>>)]>>

\* C2: with the policy {frontend: ["src/**", "!src/server/**"]}, the changed
\* files ["src/server/api.ts"] and the current labels ["frontend"], the run
\* computes nothing to add and "frontend" to remove.
C2_NegatedPatternExcludes ==
    ( /\ Processed
      /\ configDoc = FrontendPolicy
      /\ changedFiles = <<API_TS>>
      /\ pullRequest = {"frontend"} )
        => /\ labels = <<>>
           /\ labelsToRemove = <<"frontend">>

\* C3: with the sync-labels input off no removeLabel call is issued; with
\* it on, once the run is past the removal step, the removeLabel calls
\* issued are exactly the labels to remove, one call each.
C3_RemovalGated ==
    /\ (syncInput \in {"", "false"} => removeCalls = <<>>)
    /\ ( /\ syncInput = "true"
         /\ Processed
         /\ pc \in {"awaitRemove", "done"}
         /\ failed.kind # "issues.addLabels" )
           => removeCalls = labelsToRemove

\* C4: when the document has a label whose value is neither a string nor a
\* list, the run issues no addLabels and no removeLabel call, the labels of
\* the pull request stay as they were when the run started, and a run that
\* got the document fails with the error naming such a label.
C4_UnexpectedTypeAborts ==
    (pc # "idle" /\ BadLabels(configDoc) # {}) =>
        /\ addCalls = <<>>
        /\ removeCalls = <<>>
        /\ prLabels = startLabels
        /\ pc \notin {"process", "addLabels", "removeLabels", "awaitRemove"}
        /\ ( /\ pc = "done"
             /\ hasPullRequest
             /\ failed.kind \notin {"pulls.get", "pulls.listFiles", "repos.getContents"} )
               => /\ failed.kind = "unexpected type"
                  /\ failed.label \in BadLabels(configDoc)

C4_Witness ==
    /\ pc = "done"
    /\ failed.kind = "unexpected type"
    /\ Len(configDoc) = 2
    /\ failed.label = configDoc[2].label
    /\ configDoc[1].value.type = "string"
    /\ Covers(changedFiles, <<configDoc[1].value.str>>)
    /\ changedFiles # <<>>
    /\ prLabels = {failed.label}

\* C5 as stated: after a successful parse every label has a non-empty list
\* of patterns and every pattern is a non-empty string.
C5_NonEmptyPatterns ==
    Parsed =>
        \A i \in DOMAIN labelGlobs :
            /\ labelGlobs[i].globs # <<>>
            /\ \A j \in DOMAIN labelGlobs[i].globs : labelGlobs[i].globs[j] # <<>>

\* C5 amended: after a successful parse the map has the labels of the
\* document in document order; a string value has become the one-element
\* list holding it and a list value is the same list, empty or not.
C5_Normalized ==
    Parsed =>
        /\ Len(labelGlobs) = Len(configDoc)
        /\ \A i \in DOMAIN labelGlobs :
              /\ labelGlobs[i].label = configDoc[i].label
              /\ configDoc[i].value.type \in {"string", "array"}
              /\ (configDoc[i].value.type = "string"
                    => labelGlobs[i].globs = <<configDoc[i].value.str>>)
              /\ (configDoc[i].value.type = "array"
                    => labelGlobs[i].globs = configDoc[i].value.arr)

C5_Witness ==
    /\ Parsed
    /\ Len(labelGlobs) = 2
    /\ configDoc[1].value.type = "string"
    /\ labelGlobs[1].globs = <<MD_GLOB>>
    /\ labelGlobs[2].globs = <<>>

\* C6: a label the fetched pull request carries and whose patterns cover
\* every changed file is in labels, is not in labelsToRemove, and is in the
\* labels of the addLabels call once that call has been issued.
C6_PresentLabelReAdded ==
    Processed =>
        \A i \in DOMAIN labelGlobs :
            ( /\ labelGlobs[i].label \in pullRequest
              /\ Covers(changedFiles, labelGlobs[i].globs) )
                => /\ labelGlobs[i].label \in Range(labels)
                   /\ labelGlobs[i].label \notin Range(labelsToRemove)
                   /\ (pc \in {"removeLabels", "awaitRemove", "done"}
                         => /\ Len(addCalls) = 1
                            /\ labelGlobs[i].label \in Range(addCalls[1]))

C6_Witness ==
    /\ pc = "done"
    /\ failed = NoError
    /\ changedFiles # <<>>
    /\ Len(addCalls) = 1
    /\ \E l \in pullRequest : l \in Range(addCalls[1])

\* C7: no label is both in labels and in labelsToRemove.
C7_Disjoint ==
    Range(labels) \cap Range(labelsToRemove) = {}

C7_Witness ==
    /\ Processed
    /\ labels # <<>>
    /\ labelsToRemove # <<>>
    /\ Range(labels) \subseteq pullRequest

\* C8 as stated, for the outcome "removal succeeds while add fails": the
\* removal is independent of the add, so a run whose addLabels call failed
\* has still issued the removeLabel calls it had to issue.
C8_RemovalIndependentOfAdd ==
    ( /\ pc = "done"
      /\ failed.kind = "issues.addLabels"
      /\ syncLabels
      /\ labelsToRemove # <<>> )
        => removeCalls # <<>>

\* C8 amended: the addLabels call is awaited before any removeLabel call is
\* issued.  When it fails the run ends, reports it, has issued no
\* removeLabel call and leaves the labels as they were; when a removeLabel
\* call fails the run ends and reports it, the added labels are attached
\* and the label of the failed call is still attached.
C8_AddBeforeRemove ==
    /\ failed.kind = "issues.addLabels"
          => /\ pc = "done"
             /\ removeCalls = <<>>
             /\ pending = {}
             /\ prLabels = startLabels
    /\ failed.kind = "issues.removeLabel"
          => /\ pc = "done"
             /\ failed.label \in Range(removeCalls)
             /\ failed.label \in prLabels
             /\ Range(labels) \subseteq prLabels

C8_Witness ==
    /\ failed.kind = "issues.removeLabel"
    /\ Len(addCalls) = 1
    /\ prLabels # startLabels
    /\ pending = {}

\* the labels of the map whose patterns cover every changed file
Covered == { labelGlobs[i].label :
               i \in { j \in DOMAIN labelGlobs :
                         Covers(changedFiles, labelGlobs[j].globs) } }

\* C9: after a run with syncLabels set that ended without a failure, the
\* labels of the pull request that the policy names are exactly those whose
\* patterns cover every changed file; the run after it, when the document
\* and the changed files are the same, computes nothing to remove and
\* leaves the labels of the pull request as they were.
C9_Converges ==
    /\ SyncedClean => prLabels \cap DocKeys(labelGlobs) = Covered
    /\ (converged /\ pc # "idle")
          => /\ prLabels = startLabels
             /\ labelsToRemove = <<>>

C9_Witness ==
    /\ converged
    /\ SyncedClean
    /\ Len(addCalls) = 1
    /\ \E i \in DOMAIN labelGlobs : labelGlobs[i].label \notin prLabels

\* C10: within a run, labels and labelsToRemove and the arguments of every
\* call are labels of the document; a removeLabel call is only issued for a
\* label the fetched pull request carried; the labels the pull request had
\* when the run started and that the document does not name stay attached.
C10_Frame ==
    pc # "idle" =>
        /\ Range(labels) \cup Range(labelsToRemove) \subseteq DocKeys(configDoc)
        /\ \A k \in DOMAIN addCalls : Range(addCalls[k]) \subseteq DocKeys(configDoc)
        /\ Range(removeCalls) \subseteq pullRequest \cap DocKeys(configDoc)
        /\ startLabels \ DocKeys(configDoc) \subseteq prLabels
        /\ startLabels \ prLabels \subseteq pullRequest \cap DocKeys(configDoc)

C10_Witness ==
    /\ pc = "done"
    /\ failed = NoError
    /\ removeCalls # <<>>
    /\ startLabels \ prLabels # {}
    /\ startLabels \ DocKeys(configDoc) # {}
====
